---- MODULE Spec2Model ----
(***************************************************************************)
(* A model of the `possible` crate: the three-state optional value         *)
(* Possible<T> (Some(T), None, Void), its in-place operations (take,       *)
(* replace) and its combinators (and, and_then, or, zip, map, filter).     *)
(*                                                                         *)
(* A Possible value is a tuple whose first element is the variant tag:     *)
(*   Some(v) = <<"Some", v>>,  None = <<"None">>,  Void = <<"Void">>.      *)
(* A closure argument is a function over the payload values; an operator   *)
(* that takes a closure returns the record [ret, calls], where calls is    *)
(* the sequence of arguments the closure was invoked with.                 *)
(***************************************************************************)
EXTENDS Integers, Sequences, FiniteSets, TLC

\* Payload values are 0..MaxVal.
MaxVal == 1
\* The longest method chain x.and_then(f1).and_then(f2)... that is followed.
MaxChain == 2

Vals == 0..MaxVal

(***************************************************************************)
(* The type                                                                *)
(***************************************************************************)
Some(v) == <<"Some", v>>
None == <<"None">>
Void == <<"Void">>

\* All values of Possible<T> whose payload is drawn from S.
PossibleOf(S) == {Some(v) : v \in S} \cup {None, Void}
PossibleT == PossibleOf(Vals)

\* Closures: FnOnce(T) -> U, FnOnce(T) -> Possible<U>, FnOnce(&T) -> bool.
MapFns == [Vals -> Vals]
ThenFns == [Vals -> PossibleT]
Predicates == [Vals -> BOOLEAN]

\* #[derive(PartialEq)]: the same variant and, for Some, equal payloads.
eq_merges_empty(self, other) ==
    CASE self[1] = "Some" -> other[1] = "Some" /\ self[2] = other[2]
      [] OTHER -> other[1] # "Some"
eq(self, other) ==
    CASE self[1] # other[1] -> FALSE
      [] self[1] = "Some" -> self[2] = other[2]
      [] OTHER -> TRUE

\* copy.rs: impl Clone for Possible<T>; the payload's clone is a copy.
clone(self) ==
    CASE self[1] = "Some" -> Some(self[2])
      [] self[1] = "None" -> None
      [] self[1] = "Void" -> Void

\* clone_from(&mut self, source): [self, ret]; between two Some the payload
\* is overwritten in place, otherwise *self = source.clone().
clone_from(self, source) ==
    CASE self[1] = "Some" /\ source[1] = "Some" -> [self |-> Some(source[2]), ret |-> <<>>]
      [] OTHER -> [self |-> clone(source), ret |-> <<>>]

(***************************************************************************)
(* default.rs                                                              *)
(***************************************************************************)
default_is_none == None
default == Void

(***************************************************************************)
(* introspection.rs                                                        *)
(***************************************************************************)
is_some(self) == self[1] = "Some"
is_none(self) == self[1] = "None"
is_void_or_none(self) == self[1] \in {"Void", "None"}
is_void(self) == self[1] = "Void"

(***************************************************************************)
(* replace.rs: operations on a container in place.  Each returns the       *)
(* record [self, ret]: the container afterwards and the returned value.    *)
(***************************************************************************)
\* core::mem::take(dest): moves dest out and leaves Default::default().
mem_take_keeps(dest) == [self |-> dest, ret |-> dest]
mem_take(dest) == [self |-> default, ret |-> dest]
\* core::mem::replace(dest, src): moves dest out and leaves src.
mem_replace(dest, src) == [self |-> src, ret |-> dest]

take_leaves_none(self) == [self |-> None, ret |-> self]
take(self) == mem_take(self)

replace_returns_new(self, value) == [self |-> Some(value), ret |-> Some(value)]
replace(self, value) == mem_replace(self, Some(value))

\* The operations below return &mut T, a reference to the payload of the
\* container: ret is the payload it refers to.  Their second match arm is
\* hint::unreachable_unchecked().
\* *self = Some(value); match self { Some(v) => v, .. }
insert(self, value) ==
    LET s == Some(value)
    IN  CASE s[1] = "Some" -> [self |-> s, ret |-> s[2]]
          [] OTHER -> [self |-> s, ret |-> <<"unreachable_unchecked">>]

\* if let None | Void = *self { *self = Some(f()); }  match self { .. }
get_or_insert_with_overwrites(self, f) ==
    [self |-> Some(f[<<>>]), ret |-> f[<<>>], calls |-> << <<>> >>]
get_or_insert_with(self, f) ==
    LET fill == self[1] \in {"None", "Void"}
        s == IF fill THEN Some(f[<<>>]) ELSE self
    IN  CASE s[1] = "Some" ->
                 [self |-> s, ret |-> s[2], calls |-> IF fill THEN << <<>> >> ELSE <<>>]
          [] OTHER ->
                 [self |-> s, ret |-> <<"unreachable_unchecked">>, calls |-> <<>>]

\* self.get_or_insert_with(|| value)
get_or_insert(self, value) == get_or_insert_with(self, [u \in {<<>>} |-> value])

(***************************************************************************)
(* boolean.rs                                                              *)
(***************************************************************************)
and_none_wins(self, possible_b) ==
    CASE self[1] = "Some" -> possible_b
      [] self[1] = "None" -> None
      [] self[1] = "Void" -> None
and(self, possible_b) ==
    CASE self[1] = "Some" -> possible_b
      [] self[1] = "None" -> None
      [] self[1] = "Void" -> Void

and_then_merges_empty(self, f) ==
    CASE self[1] = "Some" -> [ret |-> f[self[2]], calls |-> <<self[2]>>]
      [] self[1] = "None" -> [ret |-> None, calls |-> <<>>]
      [] self[1] = "Void" -> [ret |-> None, calls |-> <<>>]
and_then(self, f) ==
    CASE self[1] = "Some" -> [ret |-> f[self[2]], calls |-> <<self[2]>>]
      [] self[1] = "None" -> [ret |-> None, calls |-> <<>>]
      [] self[1] = "Void" -> [ret |-> Void, calls |-> <<>>]

or_keeps_none(self, possible_b) ==
    CASE self[1] = "Some" -> self
      [] self[1] = "None" -> IF possible_b[1] = "Some" THEN possible_b ELSE self
      [] self[1] = "Void" -> possible_b
or(self, possible_b) ==
    CASE self[1] = "Some" -> self
      [] self[1] \in {"None", "Void"} -> possible_b

\* Closures FnOnce() -> Possible<T>.
PossibleThunks == [{<<>>} -> PossibleT]

or_else_eager(self, f) ==
    CASE self[1] = "Some" -> [ret |-> self, calls |-> << <<>> >>]
      [] self[1] \in {"None", "Void"} -> [ret |-> f[<<>>], calls |-> << <<>> >>]
or_else(self, f) ==
    CASE self[1] = "Some" -> [ret |-> self, calls |-> <<>>]
      [] self[1] \in {"None", "Void"} -> [ret |-> f[<<>>], calls |-> << <<>> >>]

(***************************************************************************)
(* zip.rs                                                                  *)
(***************************************************************************)
zip_none_first(self, other) ==
    CASE self[1] = "Some" /\ other[1] = "Some" -> Some(<<self[2], other[2]>>)
      [] self[1] = "None" \/ other[1] = "None" -> None
      [] OTHER -> Void
zip_some_void(self, other) ==
    CASE self[1] = "Some" /\ other[1] = "Some" -> Some(<<self[2], other[2]>>)
      [] \/ self[1] = "Some" /\ other[1] \in {"None", "Void"}
         \/ self[1] = "None" /\ other[1] = "Some"
         \/ self[1] = "None" /\ other[1] = "None" -> None
      [] OTHER -> Void
zip_unhandled(self, other) ==
    CASE self[1] = "Some" /\ other[1] = "Some" -> Some(<<self[2], other[2]>>)
      [] \/ self[1] = "Some" /\ other[1] = "None"
         \/ self[1] = "None" /\ other[1] = "Some"
         \/ self[1] = "None" /\ other[1] = "None" -> None
      [] self[1] = "Void" -> Void
      [] OTHER -> <<"Panic", "internal error: entered unreachable code">>
zip(self, other) ==
    CASE self[1] = "Some" /\ other[1] = "Some" -> Some(<<self[2], other[2]>>)
      [] \/ self[1] = "Some" /\ other[1] = "None"
         \/ self[1] = "None" /\ other[1] = "Some"
         \/ self[1] = "None" /\ other[1] = "None" -> None
      [] OTHER -> Void

(***************************************************************************)
(* map.rs                                                                  *)
(***************************************************************************)
map_merges_empty(self, f) ==
    CASE self[1] = "Some" -> [ret |-> Some(f[self[2]]), calls |-> <<self[2]>>]
      [] self[1] = "None" -> [ret |-> None, calls |-> <<>>]
      [] self[1] = "Void" -> [ret |-> None, calls |-> <<>>]
map(self, f) ==
    CASE self[1] = "Some" -> [ret |-> Some(f[self[2]]), calls |-> <<self[2]>>]
      [] self[1] = "None" -> [ret |-> None, calls |-> <<>>]
      [] self[1] = "Void" -> [ret |-> Void, calls |-> <<>>]

(***************************************************************************)
(* filter.rs                                                               *)
(***************************************************************************)
filter_rejects_to_void(self, predicate) ==
    CASE self[1] = "Void" -> [ret |-> Void, calls |-> <<>>]
      [] self[1] = "None" -> [ret |-> None, calls |-> <<>>]
      [] self[1] = "Some" /\ predicate[self[2]] ->
             [ret |-> Some(self[2]), calls |-> <<self[2]>>]
      [] self[1] = "Some" /\ ~predicate[self[2]] ->
             [ret |-> Void, calls |-> <<self[2]>>]
filter(self, predicate) ==
    CASE self[1] = "Void" -> [ret |-> Void, calls |-> <<>>]
      [] self[1] = "None" -> [ret |-> None, calls |-> <<>>]
      [] self[1] = "Some" /\ predicate[self[2]] ->
             [ret |-> Some(self[2]), calls |-> <<self[2]>>]
      [] self[1] = "Some" /\ ~predicate[self[2]] ->
             [ret |-> None, calls |-> <<self[2]>>]

(***************************************************************************)
(* unwrap.rs: extraction.  A call ends in <<"Ok", value>> or, when it      *)
(* panics, in <<"Panic", message>>.  The backquotes of the source's        *)
(* messages are written as single quotes.                                  *)
(***************************************************************************)
\* The messages a caller passes to expect().
Msgs == {"fruits are healthy", "the world is ending"}
\* Closures FnOnce() -> T.
Thunks == [{<<>>} -> Vals]
\* <T as Default>::default() of the integer payload type.
T_default == 0

expect_failed(msg) == <<"Panic", msg>>

expect_names_variant(self, msg) ==
    CASE self[1] = "Some" -> <<"Ok", self[2]>>
      [] self[1] = "None" -> expect_failed(msg)
      [] self[1] = "Void" -> expect_failed("called 'Possible::expect()' on a 'Possible::Void' value")
expect(self, msg) ==
    CASE self[1] = "Some" -> <<"Ok", self[2]>>
      [] self[1] \in {"None", "Void"} -> expect_failed(msg)

unwrap_one_message(self) ==
    CASE self[1] = "Some" -> <<"Ok", self[2]>>
      [] self[1] \in {"None", "Void"} ->
             expect_failed("called 'Possible::unwrap()' on a 'Possible::None' value")
unwrap(self) ==
    CASE self[1] = "Some" -> <<"Ok", self[2]>>
      [] self[1] = "None" ->
             expect_failed("called 'Possible::unwrap()' on a 'Possible::None' value")
      [] self[1] = "Void" ->
             expect_failed("called 'Possible::unwrap()' on a 'Possible::Void' value")

unwrap_or_panics_on_void(self, dflt) ==
    CASE self[1] = "Some" -> <<"Ok", self[2]>>
      [] self[1] = "None" -> <<"Ok", dflt>>
      [] self[1] = "Void" ->
             expect_failed("called 'Possible::unwrap()' on a 'Possible::Void' value")
unwrap_or(self, dflt) ==
    CASE self[1] = "Some" -> <<"Ok", self[2]>>
      [] self[1] \in {"None", "Void"} -> <<"Ok", dflt>>

unwrap_or_else(self, f) ==
    CASE self[1] = "Some" -> [ret |-> <<"Ok", self[2]>>, calls |-> <<>>]
      [] self[1] \in {"None", "Void"} -> [ret |-> <<"Ok", f[<<>>]>>, calls |-> << <<>> >>]

unwrap_or_default(self) ==
    CASE self[1] = "Some" -> <<"Ok", self[2]>>
      [] self[1] \in {"None", "Void"} -> <<"Ok", T_default>>

\* replace.rs: self.get_or_insert_with(Default::default)
get_or_insert_default(self) == get_or_insert_with(self, [u \in {<<>>} |-> T_default])

(***************************************************************************)
(* from.rs: conversions.  The two-state Option<T> is written               *)
(* <<"Option::Some", v>> and <<"Option::None">>; a Result is <<"Ok", v>>   *)
(* or <<"Err", e>>; the unit value () is <<>>.                             *)
(***************************************************************************)
\* The longest input sequence collected by from_iter.
MaxLen == 2

OptionSome(v) == <<"Option::Some", v>>
OptionNone == <<"Option::None">>
OptionT == {OptionSome(v) : v \in Vals} \cup {OptionNone}

\* The finite input sequences of from_iter.
Iters == UNION {[1..n -> PossibleT] : n \in 0..MaxLen}

\* impl From<Possible<T>> for Option<T>
Option_from(value) ==
    CASE value[1] = "Some" -> OptionSome(value[2])
      [] value[1] \in {"None", "Void"} -> OptionNone

\* impl From<Option<T>> for Possible<T>
Possible_from_invents_void(value) ==
    CASE value[1] = "Option::Some" -> Some(value[2])
      [] value[1] = "Option::None" -> Void
Possible_from(value) ==
    CASE value[1] = "Option::Some" -> Some(value[2])
      [] value[1] = "Option::None" -> None

\* map.rs: Possible::ok_or
ok_or(self, err) ==
    CASE self[1] = "Some" -> <<"Ok", self[2]>>
      [] self[1] \in {"None", "Void"} -> <<"Err", err>>

\* Result::ok
Result_ok(self) ==
    CASE self[1] = "Ok" -> OptionSome(self[2])
      [] self[1] = "Err" -> OptionNone

\* iter.map(|x| x.ok_or(())).collect::<Result<V, ()>>(): the elements are
\* pulled one at a time through the closure; the first Err ends the pull and
\* is the result, otherwise the result is Ok of the payloads in order.
\* rest: the input not yet pulled; acc: the payloads so far; pulled: the
\* elements the closure was called with.
RECURSIVE collect_result(_, _, _)
collect_result(rest, acc, pulled) ==
    IF rest = <<>>
    THEN [ret |-> <<"Ok", acc>>, calls |-> pulled]
    ELSE LET r == ok_or(Head(rest), <<>>)
         IN  IF r[1] = "Err"
             THEN [ret |-> r, calls |-> Append(pulled, Head(rest))]
             ELSE collect_result(Tail(rest), Append(acc, r[2]), Append(pulled, Head(rest)))

\* impl FromIterator<Possible<A>> for Possible<V>
from_iter_keeps_void(iter) ==
    LET c == collect_result(iter, <<>>, <<>>)
    IN  [ret |-> IF c.ret[1] = "Ok" THEN Some(c.ret[2])
                 ELSE c.calls[Len(c.calls)],
         calls |-> c.calls]
from_iter(iter) ==
    LET c == collect_result(iter, <<>>, <<>>)
        o == Result_ok(c.ret)
    IN  [ret |-> CASE o[1] = "Option::Some" -> Some(o[2])
                   [] o[1] = "Option::None" -> None,
         calls |-> c.calls]

(***************************************************************************)
(* refs.rs and iter.rs: iteration.  Iter, IterMut and IntoIter all wrap    *)
(* one Item { opt } and forward next, next_back and size_hint to it; a     *)
(* reference to a payload is written as the payload.                       *)
(***************************************************************************)
\* The number of next()/next_back() calls made on one iterator.
MaxCalls == 3

as_ref(self) ==
    CASE self[1] = "Some" -> Some(self[2])
      [] self[1] = "None" -> None
      [] self[1] = "Void" -> Void

as_mut(self) ==
    CASE self[1] = "Some" -> Some(self[2])
      [] self[1] = "None" -> None
      [] self[1] = "Void" -> Void

iter(self) == [opt |-> as_ref(self)]
iter_mut(self) == [opt |-> as_mut(self)]
into_iter(self) == [opt |-> self]

\* Item::next and Item::next_back return [self, ret]: the Item afterwards
\* and the Option returned.
Item_next_keeps(self) ==
    [self |-> self,
     ret  |-> CASE self.opt[1] = "Some" -> OptionSome(self.opt[2])
                [] self.opt[1] \in {"None", "Void"} -> OptionNone]
Item_next(self) ==
    LET t == take(self.opt)
    IN  [self |-> [opt |-> t.self],
         ret  |-> CASE t.ret[1] = "Some" -> OptionSome(t.ret[2])
                    [] t.ret[1] \in {"None", "Void"} -> OptionNone]

Item_next_back(self) ==
    LET t == take(self.opt)
    IN  [self |-> [opt |-> t.self],
         ret  |-> CASE t.ret[1] = "Some" -> OptionSome(t.ret[2])
                    [] t.ret[1] \in {"None", "Void"} -> OptionNone]

\* (lower, upper): (usize, Option<usize>)
Item_size_hint_unknown(self) == <<0, OptionNone>>
Item_size_hint(self) ==
    CASE self.opt[1] = "Some" -> <<1, OptionSome(1)>>
      [] self.opt[1] \in {"None", "Void"} -> <<0, OptionSome(0)>>

(***************************************************************************)
(* serde.rs: the serialization bridge, and the host structure of the       *)
(* tests, `struct Parse { test: Possible<i64> }`, written and read by a    *)
(* format.  A document is the sequence of its lexemes, each a string:      *)
(*   {"test":1}        <<"{", "test", ":", "1", "}">>          (JSON)      *)
(*   (test:Some(1))    <<"(", "test", ":", "Some", "(", "1", ")", ")">>    *)
(*                                                              (RON)      *)
(*   ---\ntest: 1\n    <<"---", "test", ":", "1">>              (YAML)     *)
(***************************************************************************)
\* The formats of the tests that have a spelling for null.
Formats == {"json", "ron", "yaml"}

\* ---- decoding: PossibleVisitor ----
\* <i64 as Deserialize>::deserialize on the lexemes of a payload.
T_deserialize(deserializer) ==
    IF Len(deserializer) = 1 /\ \E v \in Vals : ToString(v) = deserializer[1]
    THEN <<"Ok", CHOOSE v \in Vals : ToString(v) = deserializer[1]>>
    ELSE <<"Err", <<"invalid type", deserializer>>>>

visit_unit_gives_none == <<"Ok", None>>
visit_unit == <<"Ok", Void>>

visit_none_gives_void == <<"Ok", Void>>
visit_none == <<"Ok", None>>

\* T::deserialize(deserializer).map(Possible::Some)
visit_some_wraps_error(deserializer) ==
    LET r == T_deserialize(deserializer)
    IN  CASE r[1] = "Ok" -> <<"Ok", Some(r[2])>>
          [] r[1] = "Err" -> <<"Err", <<"custom", r[2]>>>>

visit_some(deserializer) ==
    LET r == T_deserialize(deserializer)
    IN  CASE r[1] = "Ok" -> <<"Ok", Some(r[2])>>
          [] r[1] = "Err" -> r

\* The visitation events a reader can announce to the visitor.
Events ==
    {<<"unit">>, <<"none">>}
        \cup {<<"some", <<ToString(v)>>>> : v \in Vals}
        \cup {<<"some", <<"true">>>>}

\* The visitor method an event calls.
visit(event) ==
    CASE event[1] = "unit" -> visit_unit
      [] event[1] = "none" -> visit_none
      [] event[1] = "some" -> visit_some(event[2])

\* The RON attribute that lets a bare value stand for Some(value).
ImplicitSome == "#![enable(implicit_some)]"

\* Whether a document enables implicit_some (RON only).
implicit_some(fmt, doc) == fmt = "ron" /\ doc # <<>> /\ doc[1] = ImplicitSome

\* deserializer.deserialize_option(visitor): the event the reader of the
\* format announces for the lexemes of a field's value, or the reader's own
\* error.  ext: the document enables implicit_some.  RON reads None, then
\* Some(..), then with implicit_some a bare value, and else fails.
deserialize_option(fmt, ext, val) ==
    CASE fmt = "json" -> IF val = <<"null">> THEN <<"none">> ELSE <<"some", val>>
      [] fmt = "yaml" -> IF val \in {<<"null">>, <<"~">>, <<>>}
                         THEN <<"none">> ELSE <<"some", val>>
      [] fmt = "ron"  ->
             IF val = <<"None">> THEN <<"none">>
             ELSE IF Len(val) >= 3 /\ val[1] = "Some" /\ val[2] = "("
                         /\ val[Len(val)] = ")"
                  THEN <<"some", SubSeq(val, 3, Len(val) - 1)>>
             ELSE IF ext THEN <<"some", val>>
             ELSE <<"error", "Expected option">>

\* impl Deserialize for Possible<T>
deserialize(fmt, ext, val) ==
    LET e == deserialize_option(fmt, ext, val)
    IN  IF e[1] = "error" THEN <<"Err", e[2]>> ELSE visit(e)

\* ---- encoding: impl Serialize for Possible<T> ----
\* The Serializer method called, with its argument.
serialize(self) ==
    CASE self[1] = "Some" -> <<"serialize_some", self[2]>>
      [] self[1] = "None" -> <<"serialize_none">>
      [] self[1] = "Void" -> <<"serialize_unit">>

\* The lexemes the Serializer of a format writes for a call; the payload is
\* written by <i64 as Serialize>.
emit(fmt, call) ==
    CASE fmt = "json" ->
             (CASE call[1] = "serialize_some" -> <<ToString(call[2])>>
                [] call[1] = "serialize_none" -> <<"null">>
                [] call[1] = "serialize_unit" -> <<"null">>)
      [] fmt = "yaml" ->
             (CASE call[1] = "serialize_some" -> <<ToString(call[2])>>
                [] call[1] = "serialize_none" -> <<"~">>
                [] call[1] = "serialize_unit" -> <<"~">>)
      [] fmt = "ron" ->
             (CASE call[1] = "serialize_some" -> <<"Some", "(", ToString(call[2]), ")">>
                [] call[1] = "serialize_none" -> <<"None">>
                [] call[1] = "serialize_unit" -> <<"(", ")">>)

\* ---- the host structure ----
\* #[derive(Serialize)] with, when skip holds,
\* #[serde(skip_serializing_if = "Possible::is_void")] on the field: the
\* Serializer calls made for the field.
serialize_field(skip, value) ==
    IF skip /\ is_void(value) THEN <<>> ELSE <<serialize(value)>>

\* The document of a structure with the given field lexemes (<<>>: none).
document(fmt, field) ==
    CASE fmt = "json" -> IF field = <<>> THEN <<"{", "}">>
                         ELSE <<"{", "test", ":">> \o field \o <<"}">>
      [] fmt = "ron"  -> IF field = <<>> THEN <<"(", ")">>
                         ELSE <<"(", "test", ":">> \o field \o <<")">>
      [] fmt = "yaml" -> IF field = <<>> THEN <<"---", "{", "}">>
                         ELSE <<"---", "test", ":">> \o field

\* serde_json::to_string(&data) and its like: [wire, calls].
to_string(fmt, skip, value) ==
    LET c == serialize_field(skip, value)
    IN  [wire  |-> document(fmt, IF c = <<>> THEN <<>> ELSE emit(fmt, c[1])),
         calls |-> c]

\* The lexemes of the value of the field `test` in a document, as
\* <<"present", val>>, or <<"missing">>.
field_of(fmt, doc) ==
    CASE fmt = "json" -> IF doc = <<"{", "}">> THEN <<"missing">>
                         ELSE <<"present", SubSeq(doc, 4, Len(doc) - 1)>>
      [] fmt = "ron"  ->
             LET d == IF implicit_some(fmt, doc) THEN Tail(doc) ELSE doc
             IN  IF d = <<"(", ")">> THEN <<"missing">>
                 ELSE <<"present", SubSeq(d, 4, Len(d) - 1)>>
      [] fmt = "yaml" ->
             LET d == IF doc # <<>> /\ doc[1] = "---" THEN Tail(doc) ELSE doc
             IN  IF doc = <<>> THEN <<"end of stream">>
                 ELSE IF d = <<"{", "}">> THEN <<"missing">>
                 ELSE <<"present", SubSeq(d, 3, Len(d))>>

\* serde_json::from_str(doc) and its like, for the structure whose field
\* carries #[serde(default)]: a missing field is Default::default().
from_str(fmt, doc) ==
    LET f == field_of(fmt, doc)
    IN  CASE f[1] = "missing" -> <<"Ok", default>>
          [] f[1] = "end of stream" -> <<"Err", "EndOfStream">>
          [] OTHER -> deserialize(fmt, implicit_some(fmt, doc), f[2])

\* serde_json::from_str(doc) for the structure whose field carries no
\* default annotation: the derived reader decodes a missing field from a
\* deserializer whose deserialize_option announces none.
from_str_no_default(fmt, doc) ==
    LET f == field_of(fmt, doc)
    IN  CASE f[1] = "missing" -> visit(<<"none">>)
          [] f[1] = "end of stream" -> <<"Err", "EndOfStream">>
          [] OTHER -> deserialize(fmt, implicit_some(fmt, doc), f[2])

\* The documents read: the field missing, a number, the null spellings of
\* the format, and a payload that is not a number.
Docs(fmt) ==
    CASE fmt = "json" ->
             {document(fmt, <<>>), document(fmt, <<"null">>), document(fmt, <<"true">>)}
                 \cup {document(fmt, <<ToString(v)>>) : v \in Vals}
      [] fmt = "ron" ->
             LET plain == {document(fmt, <<>>), document(fmt, <<"None">>),
                           document(fmt, <<"Some", "(", "true", ")">>)}
                              \cup {document(fmt, <<"Some", "(", ToString(v), ")">>) : v \in Vals}
                              \cup {document(fmt, <<ToString(v)>>) : v \in Vals}
             IN  plain \cup {<<ImplicitSome>> \o d : d \in plain}
      [] fmt = "yaml" ->
             {document(fmt, <<>>), document(fmt, <<"null">>), <<"test", ":", "~">>,
              <<"test", ":">>, <<"test", ":", "true">>}
                 \cup {<<"test", ":", ToString(v)>> : v \in Vals}

(***************************************************************************)
(* The flat key/value formats of the tests, TOML and the URL query string, *)
(* for the host structure `struct ParseTest { test: Possible<i64> }` whose *)
(* field carries #[serde(default)] and the is_void skip rule.  Neither     *)
(* writer has a spelling for null: a serialize_none call writes no key.    *)
(*   test = 1    <<"test", "=", "1">>    (TOML)                            *)
(*   test=1      <<"test", "=", "1">>    (URL query string)                *)
(*   test=       <<"test", "=">>         (URL query string)                *)
(***************************************************************************)
FlatFormats == {"toml", "url"}

\* The lexemes toml::to_string writes for a Serializer call on the field.
toml_emit(call) ==
    CASE call[1] = "serialize_some" -> <<"test", "=", ToString(call[2])>>
      [] call[1] = "serialize_none" -> <<>>

\* toml::to_string(&data): [wire, calls].
toml_to_string(value) ==
    LET c == serialize_field(TRUE, value)
    IN  [wire |-> IF c = <<>> THEN <<>> ELSE toml_emit(c[1]), calls |-> c]

\* toml::from_str(doc): a missing field is Default::default(); TOML has no
\* null, so a key that is present always announces a value.
toml_from_str(doc) ==
    IF doc = <<>> THEN <<"Ok", default>>
    ELSE visit(<<"some", SubSeq(doc, 3, Len(doc))>>)

\* The lexemes serde_qs::to_string writes for a Serializer call on the field.
url_emit(call) ==
    CASE call[1] = "serialize_some" -> <<"test", "=", ToString(call[2])>>
      [] call[1] = "serialize_none" -> <<>>

\* serde_qs::to_string(&data): [wire, calls].
url_to_string(value) ==
    LET c == serialize_field(TRUE, value)
    IN  [wire |-> IF c = <<>> THEN <<>> ELSE url_emit(c[1]), calls |-> c]

\* serde_qs::from_str(doc): a missing field is Default::default(); a key
\* with an empty value announces none.
url_from_str(doc) ==
    IF doc = <<>> THEN <<"Ok", default>>
    ELSE IF Len(doc) = 2 THEN visit(<<"none">>)
    ELSE visit(<<"some", SubSeq(doc, 3, Len(doc))>>)

flat_to_string(fmt, value) ==
    IF fmt = "toml" THEN toml_to_string(value) ELSE url_to_string(value)

flat_from_str(fmt, doc) ==
    IF fmt = "toml" THEN toml_from_str(doc) ELSE url_from_str(doc)

\* The documents read: the key missing, a number, a payload that is not a
\* number and, in a query string, the key with an empty value.
FlatDocs(fmt) ==
    {<<>>, <<"test", "=", "true">>}
        \cup {<<"test", "=", ToString(v)>> : v \in Vals}
        \cup (IF fmt = "url" THEN {<<"test", "=">>} ELSE {})

(***************************************************************************)
(* The state machine: a caller that owns one container `opt` and applies   *)
(* the operations of the crate, one call per step.                         *)
(***************************************************************************)
VARIABLES
    opt,    \* the container the in-place operations act on
    op,     \* the name of the last operation called
    recv,   \* the value of `self` when the last operation was entered
    arg,    \* the argument of the last operation (a value or a closure)
    ret,    \* the value the last operation returned
    calls,  \* the arguments the closure was invoked with during the last call
    chain,  \* the receiver and the successive results of the and_then chain
    item,   \* the live iterator's Item { opt }, or <<>> when there is none
    yielded,\* what each next()/next_back() of the live iterator returned
    wire    \* the document last written or read by a format, or <<>>

vars == <<opt, op, recv, arg, ret, calls, chain, item, yielded, wire>>

Init ==
    /\ opt \in PossibleT
    /\ op = "new"
    /\ recv = <<>>
    /\ arg = <<>>
    /\ ret = <<>>
    /\ calls = <<>>
    /\ chain = <<>>
    /\ item = <<>>
    /\ yielded = <<>>
    /\ wire = <<>>

\* let mut opt = Possible::default();
Default ==
    /\ opt' = default
    /\ op' = "default"
    /\ recv' = <<>>
    /\ arg' = <<>>
    /\ ret' = <<>>
    /\ calls' = <<>>
    /\ chain' = <<>>
    /\ item' = <<>>
    /\ yielded' = <<>>
    /\ wire' = <<>>

\* let y = opt.take();
Take ==
    /\ opt' = take(opt).self
    /\ ret' = take(opt).ret
    /\ op' = "take"
    /\ recv' = opt
    /\ arg' = <<>>
    /\ calls' = <<>>
    /\ chain' = <<>>
    /\ item' = <<>>
    /\ yielded' = <<>>
    /\ wire' = <<>>

\* let old = opt.replace(value);
Replace ==
    \E value \in Vals :
        /\ opt' = replace(opt, value).self
        /\ ret' = replace(opt, value).ret
        /\ op' = "replace"
        /\ recv' = opt
        /\ arg' = value
        /\ calls' = <<>>
        /\ chain' = <<>>
        /\ item' = <<>>
        /\ yielded' = <<>>
        /\ wire' = <<>>

\* x.and(y)
And ==
    \E x \in PossibleT, y \in PossibleT :
        /\ ret' = and(x, y)
        /\ op' = "and"
        /\ recv' = x
        /\ arg' = y
        /\ calls' = <<>>
        /\ chain' = <<>>
        /\ item' = <<>>
        /\ yielded' = <<>>
        /\ wire' = <<>>
        /\ UNCHANGED opt

\* x.or(y)
Or ==
    \E x \in PossibleT, y \in PossibleT :
        /\ ret' = or(x, y)
        /\ op' = "or"
        /\ recv' = x
        /\ arg' = y
        /\ calls' = <<>>
        /\ chain' = <<>>
        /\ item' = <<>>
        /\ yielded' = <<>>
        /\ wire' = <<>>
        /\ UNCHANGED opt

\* x.zip(y)
Zip ==
    \E x \in PossibleT, y \in PossibleT :
        /\ ret' = zip(x, y)
        /\ op' = "zip"
        /\ recv' = x
        /\ arg' = y
        /\ calls' = <<>>
        /\ chain' = <<>>
        /\ item' = <<>>
        /\ yielded' = <<>>
        /\ wire' = <<>>
        /\ UNCHANGED opt

\* x.map(f)
Map ==
    \E x \in PossibleT, f \in MapFns :
        /\ ret' = map(x, f).ret
        /\ calls' = map(x, f).calls
        /\ op' = "map"
        /\ recv' = x
        /\ arg' = f
        /\ chain' = <<>>
        /\ item' = <<>>
        /\ yielded' = <<>>
        /\ wire' = <<>>
        /\ UNCHANGED opt

\* x.and_then(f): the first call of a chain.
AndThen ==
    \E x \in PossibleT, f \in ThenFns :
        /\ ret' = and_then(x, f).ret
        /\ calls' = and_then(x, f).calls
        /\ op' = "and_then"
        /\ recv' = x
        /\ arg' = f
        /\ chain' = <<x, and_then(x, f).ret>>
        /\ item' = <<>>
        /\ yielded' = <<>>
        /\ wire' = <<>>
        /\ UNCHANGED opt

\* (... .and_then(f1)).and_then(f): a later call of a chain, whose receiver
\* is the result of the previous call.
AndThenChained ==
    /\ op = "and_then"
    /\ Len(chain) <= MaxChain
    /\ \E f \in ThenFns :
        /\ ret' = and_then(ret, f).ret
        /\ calls' = and_then(ret, f).calls
        /\ op' = "and_then"
        /\ recv' = ret
        /\ arg' = f
        /\ chain' = Append(chain, and_then(ret, f).ret)
        /\ item' = <<>>
        /\ yielded' = <<>>
        /\ wire' = <<>>
        /\ UNCHANGED opt

\* x.filter(predicate)
Filter ==
    \E x \in PossibleT, predicate \in Predicates :
        /\ ret' = filter(x, predicate).ret
        /\ calls' = filter(x, predicate).calls
        /\ op' = "filter"
        /\ recv' = x
        /\ arg' = predicate
        /\ chain' = <<>>
        /\ item' = <<>>
        /\ yielded' = <<>>
        /\ wire' = <<>>
        /\ UNCHANGED opt

\* x.expect(msg)
Expect ==
    \E x \in PossibleT, msg \in Msgs :
        /\ ret' = expect(x, msg)
        /\ op' = "expect"
        /\ recv' = x
        /\ arg' = msg
        /\ calls' = <<>>
        /\ chain' = <<>>
        /\ item' = <<>>
        /\ yielded' = <<>>
        /\ wire' = <<>>
        /\ UNCHANGED opt

\* x.unwrap()
Unwrap ==
    \E x \in PossibleT :
        /\ ret' = unwrap(x)
        /\ op' = "unwrap"
        /\ recv' = x
        /\ arg' = <<>>
        /\ calls' = <<>>
        /\ chain' = <<>>
        /\ item' = <<>>
        /\ yielded' = <<>>
        /\ wire' = <<>>
        /\ UNCHANGED opt

\* x.unwrap_or(default)
UnwrapOr ==
    \E x \in PossibleT, dflt \in Vals :
        /\ ret' = unwrap_or(x, dflt)
        /\ op' = "unwrap_or"
        /\ recv' = x
        /\ arg' = dflt
        /\ calls' = <<>>
        /\ chain' = <<>>
        /\ item' = <<>>
        /\ yielded' = <<>>
        /\ wire' = <<>>
        /\ UNCHANGED opt

\* x.unwrap_or_else(f)
UnwrapOrElse ==
    \E x \in PossibleT, f \in Thunks :
        /\ ret' = unwrap_or_else(x, f).ret
        /\ calls' = unwrap_or_else(x, f).calls
        /\ op' = "unwrap_or_else"
        /\ recv' = x
        /\ arg' = f
        /\ chain' = <<>>
        /\ item' = <<>>
        /\ yielded' = <<>>
        /\ wire' = <<>>
        /\ UNCHANGED opt

\* x.unwrap_or_default()
UnwrapOrDefault ==
    \E x \in PossibleT :
        /\ ret' = unwrap_or_default(x)
        /\ op' = "unwrap_or_default"
        /\ recv' = x
        /\ arg' = <<>>
        /\ calls' = <<>>
        /\ chain' = <<>>
        /\ item' = <<>>
        /\ yielded' = <<>>
        /\ wire' = <<>>
        /\ UNCHANGED opt

\* let o: Option<T> = x.into();
IntoOption ==
    \E x \in PossibleT :
        /\ ret' = Option_from(x)
        /\ op' = "Option::from"
        /\ recv' = x
        /\ arg' = <<>>
        /\ calls' = <<>>
        /\ chain' = <<>>
        /\ item' = <<>>
        /\ yielded' = <<>>
        /\ wire' = <<>>
        /\ UNCHANGED opt

\* let p: Possible<T> = o.into();
FromOption ==
    \E o \in OptionT :
        /\ ret' = Possible_from(o)
        /\ op' = "Possible::from"
        /\ recv' = o
        /\ arg' = <<>>
        /\ calls' = <<>>
        /\ chain' = <<>>
        /\ item' = <<>>
        /\ yielded' = <<>>
        /\ wire' = <<>>
        /\ UNCHANGED opt

\* let p = Possible::from(Option::from(x)); arg is the Option in between.
OptionRoundTrip ==
    \E x \in PossibleT :
        /\ arg' = Option_from(x)
        /\ ret' = Possible_from(Option_from(x))
        /\ op' = "option_round_trip"
        /\ recv' = x
        /\ calls' = <<>>
        /\ chain' = <<>>
        /\ item' = <<>>
        /\ yielded' = <<>>
        /\ wire' = <<>>
        /\ UNCHANGED opt

\* let p: Possible<Vec<A>> = iter.into_iter().collect();
FromIter ==
    \E input \in Iters :
        /\ ret' = from_iter(input).ret
        /\ calls' = from_iter(input).calls
        /\ op' = "from_iter"
        /\ recv' = input
        /\ arg' = <<>>
        /\ chain' = <<>>
        /\ item' = <<>>
        /\ yielded' = <<>>
        /\ wire' = <<>>
        /\ UNCHANGED opt

\* The operations after which an iterator is live.
IterOps == {"iter", "iter_mut", "into_iter", "next", "next_back", "size_hint"}

\* let mut it = opt.iter();
Iter ==
    /\ item' = iter(opt)
    /\ op' = "iter"
    /\ recv' = opt
    /\ arg' = <<>>
    /\ ret' = <<>>
    /\ calls' = <<>>
    /\ chain' = <<>>
    /\ yielded' = <<>>
    /\ wire' = <<>>
    /\ UNCHANGED opt

\* let mut it = opt.iter_mut();
IterMut ==
    /\ item' = iter_mut(opt)
    /\ op' = "iter_mut"
    /\ recv' = opt
    /\ arg' = <<>>
    /\ ret' = <<>>
    /\ calls' = <<>>
    /\ chain' = <<>>
    /\ yielded' = <<>>
    /\ wire' = <<>>
    /\ UNCHANGED opt

\* let mut it = x.into_iter();
IntoIter ==
    \E x \in PossibleT :
        /\ item' = into_iter(x)
        /\ op' = "into_iter"
        /\ recv' = x
        /\ arg' = <<>>
        /\ ret' = <<>>
        /\ calls' = <<>>
        /\ chain' = <<>>
        /\ yielded' = <<>>
        /\ wire' = <<>>
        /\ UNCHANGED opt

\* it.next(); recv stays the value the iterator was made from.
IterNext ==
    /\ op \in IterOps
    /\ Len(yielded) < MaxCalls
    /\ item' = Item_next(item).self
    /\ ret' = Item_next(item).ret
    /\ yielded' = Append(yielded, <<"next", Item_next(item).ret>>)
    /\ op' = "next"
    /\ UNCHANGED <<opt, recv, arg, calls, chain, wire>>

\* it.next_back()
IterNextBack ==
    /\ op \in IterOps
    /\ Len(yielded) < MaxCalls
    /\ item' = Item_next_back(item).self
    /\ ret' = Item_next_back(item).ret
    /\ yielded' = Append(yielded, <<"next_back", Item_next_back(item).ret>>)
    /\ op' = "next_back"
    /\ UNCHANGED <<opt, recv, arg, calls, chain, wire>>

\* The reader announces one event to the PossibleVisitor.
Visit ==
    \E event \in Events :
        /\ ret' = visit(event)
        /\ op' = "visit"
        /\ recv' = event
        /\ arg' = <<>>
        /\ calls' = <<>>
        /\ chain' = <<>>
        /\ item' = <<>>
        /\ yielded' = <<>>
        /\ wire' = <<>>
        /\ UNCHANGED opt

\* let serialized = to_string(&Parse { test: x });  with the skip rule on
\* the field or without it.
ToString_ ==
    \E fmt \in Formats, skip \in BOOLEAN, x \in PossibleT :
        /\ wire' = to_string(fmt, skip, x).wire
        /\ calls' = to_string(fmt, skip, x).calls
        /\ op' = "to_string"
        /\ recv' = x
        /\ arg' = [fmt |-> fmt, skip |-> skip]
        /\ ret' = <<>>
        /\ chain' = <<>>
        /\ item' = <<>>
        /\ yielded' = <<>>
        /\ UNCHANGED opt

\* let parsed: Parse = from_str(doc);
FromStr ==
    \E fmt \in Formats :
        \E doc \in Docs(fmt) :
            /\ wire' = doc
            /\ ret' = from_str(fmt, doc)
            /\ op' = "from_str"
            /\ recv' = <<>>
            /\ arg' = [fmt |-> fmt, skip |-> TRUE]
            /\ calls' = <<>>
            /\ chain' = <<>>
            /\ item' = <<>>
            /\ yielded' = <<>>
            /\ UNCHANGED opt

\* let parsed: Parse = from_str(&to_string(&Parse { test: x }));
SerdeRoundTrip ==
    \E fmt \in Formats, skip \in BOOLEAN, x \in PossibleT :
        /\ wire' = to_string(fmt, skip, x).wire
        /\ calls' = to_string(fmt, skip, x).calls
        /\ ret' = from_str(fmt, to_string(fmt, skip, x).wire)
        /\ op' = "serde_round_trip"
        /\ recv' = x
        /\ arg' = [fmt |-> fmt, skip |-> skip]
        /\ chain' = <<>>
        /\ item' = <<>>
        /\ yielded' = <<>>
        /\ UNCHANGED opt

\* let serialized = toml::to_string(&data);  (or serde_qs::to_string)
FlatToString ==
    \E fmt \in FlatFormats, x \in PossibleT :
        /\ wire' = flat_to_string(fmt, x).wire
        /\ calls' = flat_to_string(fmt, x).calls
        /\ op' = "flat_to_string"
        /\ recv' = x
        /\ arg' = [fmt |-> fmt, skip |-> TRUE]
        /\ ret' = <<>>
        /\ chain' = <<>>
        /\ item' = <<>>
        /\ yielded' = <<>>
        /\ UNCHANGED opt

\* let parsed: ParseTest = toml::from_str(doc);  (or serde_qs::from_str)
FlatFromStr ==
    \E fmt \in FlatFormats :
        \E doc \in FlatDocs(fmt) :
            /\ wire' = doc
            /\ ret' = flat_from_str(fmt, doc)
            /\ op' = "flat_from_str"
            /\ recv' = <<>>
            /\ arg' = [fmt |-> fmt, skip |-> TRUE]
            /\ calls' = <<>>
            /\ chain' = <<>>
            /\ item' = <<>>
            /\ yielded' = <<>>
            /\ UNCHANGED opt

\* let parsed: ParseTest = toml::from_str(&toml::to_string(&data));
FlatRoundTrip ==
    \E fmt \in FlatFormats, x \in PossibleT :
        /\ wire' = flat_to_string(fmt, x).wire
        /\ calls' = flat_to_string(fmt, x).calls
        /\ ret' = flat_from_str(fmt, flat_to_string(fmt, x).wire)
        /\ op' = "flat_round_trip"
        /\ recv' = x
        /\ arg' = [fmt |-> fmt, skip |-> TRUE]
        /\ chain' = <<>>
        /\ item' = <<>>
        /\ yielded' = <<>>
        /\ UNCHANGED opt

\* x == y
Eq ==
    \E x \in PossibleT, y \in PossibleT :
        /\ ret' = eq(x, y)
        /\ op' = "eq"
        /\ recv' = x
        /\ arg' = y
        /\ calls' = <<>>
        /\ chain' = <<>>
        /\ item' = <<>>
        /\ yielded' = <<>>
        /\ wire' = <<>>
        /\ UNCHANGED opt

\* x.or_else(f)
OrElse ==
    \E x \in PossibleT, f \in PossibleThunks :
        /\ ret' = or_else(x, f).ret
        /\ calls' = or_else(x, f).calls
        /\ op' = "or_else"
        /\ recv' = x
        /\ arg' = f
        /\ chain' = <<>>
        /\ item' = <<>>
        /\ yielded' = <<>>
        /\ wire' = <<>>
        /\ UNCHANGED opt

\* let v = opt.insert(value);
Insert ==
    \E value \in Vals :
        /\ opt' = insert(opt, value).self
        /\ ret' = insert(opt, value).ret
        /\ op' = "insert"
        /\ recv' = opt
        /\ arg' = value
        /\ calls' = <<>>
        /\ chain' = <<>>
        /\ item' = <<>>
        /\ yielded' = <<>>
        /\ wire' = <<>>

\* let v = opt.get_or_insert(value);
GetOrInsert ==
    \E value \in Vals :
        /\ opt' = get_or_insert(opt, value).self
        /\ ret' = get_or_insert(opt, value).ret
        /\ op' = "get_or_insert"
        /\ recv' = opt
        /\ arg' = value
        /\ calls' = <<>>
        /\ chain' = <<>>
        /\ item' = <<>>
        /\ yielded' = <<>>
        /\ wire' = <<>>

\* let v = opt.get_or_insert_with(f);
GetOrInsertWith ==
    \E f \in Thunks :
        /\ opt' = get_or_insert_with(opt, f).self
        /\ ret' = get_or_insert_with(opt, f).ret
        /\ calls' = get_or_insert_with(opt, f).calls
        /\ op' = "get_or_insert_with"
        /\ recv' = opt
        /\ arg' = f
        /\ chain' = <<>>
        /\ item' = <<>>
        /\ yielded' = <<>>
        /\ wire' = <<>>

\* let v = opt.get_or_insert_default();
GetOrInsertDefault ==
    /\ opt' = get_or_insert_default(opt).self
    /\ ret' = get_or_insert_default(opt).ret
    /\ op' = "get_or_insert_default"
    /\ recv' = opt
    /\ arg' = <<>>
    /\ calls' = <<>>
    /\ chain' = <<>>
    /\ item' = <<>>
    /\ yielded' = <<>>
    /\ wire' = <<>>

\* it.size_hint()
IterSizeHint ==
    /\ op \in IterOps
    /\ ret' = Item_size_hint(item)
    /\ op' = "size_hint"
    /\ UNCHANGED <<opt, recv, arg, calls, chain, item, yielded, wire>>

\* (x.or(y)).or(z) beside x.or(y.or(z))
OrOr ==
    \E x \in PossibleT, y \in PossibleT, z \in PossibleT :
        /\ ret' = [left |-> or(or(x, y), z), right |-> or(x, or(y, z))]
        /\ op' = "or_or"
        /\ recv' = x
        /\ arg' = <<y, z>>
        /\ calls' = <<>>
        /\ chain' = <<>>
        /\ item' = <<>>
        /\ yielded' = <<>>
        /\ wire' = <<>>
        /\ UNCHANGED opt

\* let parsed: Parse = serde_json::from_str(doc);  the field of Parse
\* carries no #[serde(default)].
FromStrNoDefault ==
    \E doc \in Docs("json") :
        /\ wire' = doc
        /\ ret' = from_str_no_default("json", doc)
        /\ op' = "from_str_no_default"
        /\ recv' = <<>>
        /\ arg' = [fmt |-> "json", skip |-> FALSE]
        /\ calls' = <<>>
        /\ chain' = <<>>
        /\ item' = <<>>
        /\ yielded' = <<>>
        /\ UNCHANGED opt

\* let y = opt.clone();
Clone ==
    /\ ret' = clone(opt)
    /\ op' = "clone"
    /\ recv' = opt
    /\ arg' = <<>>
    /\ calls' = <<>>
    /\ chain' = <<>>
    /\ item' = <<>>
    /\ yielded' = <<>>
    /\ wire' = <<>>
    /\ UNCHANGED opt

\* opt.clone_from(&source);
CloneFrom ==
    \E source \in PossibleT :
        /\ opt' = clone_from(opt, source).self
        /\ ret' = clone_from(opt, source).ret
        /\ op' = "clone_from"
        /\ recv' = opt
        /\ arg' = source
        /\ calls' = <<>>
        /\ chain' = <<>>
        /\ item' = <<>>
        /\ yielded' = <<>>
        /\ wire' = <<>>

Next ==
    \/ Default
    \/ Take
    \/ Replace
    \/ And
    \/ Or
    \/ Zip
    \/ Map
    \/ AndThen
    \/ Filter
    \/ Expect
    \/ Unwrap
    \/ UnwrapOr
    \/ UnwrapOrElse
    \/ UnwrapOrDefault
    \/ IntoOption
    \/ FromOption
    \/ OptionRoundTrip
    \/ FromIter
    \/ Iter
    \/ IterMut
    \/ IntoIter
    \/ IterNext
    \/ IterNextBack
    \/ Visit
    \/ ToString_
    \/ FromStr
    \/ SerdeRoundTrip
    \/ FlatToString
    \/ FlatFromStr
    \/ FlatRoundTrip
    \/ Eq
    \/ OrElse
    \/ Insert
    \/ GetOrInsert
    \/ GetOrInsertWith
    \/ GetOrInsertDefault
    \/ IterSizeHint
    \/ OrOr
    \/ FromStrNoDefault
    \/ Clone
    \/ CloneFrom

Spec == Init /\ [][Next]_vars

\* The method chains x.and_then(f1).and_then(f2)... on their own, beside a
\* freshly defaulted container.
InitChain ==
    /\ Init
    /\ opt = default

NextChain ==
    \/ AndThen
    \/ AndThenChained

SpecChain == InitChain /\ [][NextChain]_vars

(***************************************************************************)
(* Properties                                                              *)
(***************************************************************************)

\* C1: take() returns the container's prior value unchanged, whatever its
\* variant, and leaves the container Void, never None.
C1_TakeReturnsPriorLeavesVoid ==
    op = "take" =>
        /\ ret = recv
        /\ opt = Void
        /\ opt # None

C1_Witness ==
    /\ op = "take"
    /\ recv = None
    /\ ret = None
    /\ opt = Void

\* C2: replace(v) returns the prior variant with its prior payload and leaves
\* the container equal to Some(v).
C2_ReplaceReturnsPriorLeavesSome ==
    op = "replace" =>
        /\ ret = recv
        /\ opt = Some(arg)

C2_Witness ==
    /\ op = "replace"
    /\ recv = Some(0)
    /\ arg = 1
    /\ ret = Some(0)
    /\ opt = Some(1)

\* C3: a freshly defaulted value is the Void variant: is_void() is true,
\* is_none() and is_some() are false.
C3_DefaultIsVoid ==
    op = "default" =>
        /\ is_void(opt)
        /\ ~is_none(opt)
        /\ ~is_some(opt)

C3_Witness ==
    /\ op = "default"
    /\ opt = <<"Void">>

\* C4: x.and(y) is y verbatim when x is Some, None when x is None and Void
\* when x is Void, whatever y is in the last two cases.
C4_AndTable ==
    op = "and" =>
        /\ recv[1] = "Some" => ret = arg
        /\ recv[1] = "None" => ret = <<"None">>
        /\ recv[1] = "Void" => ret = <<"Void">>

C4_Witness ==
    /\ op = "and"
    /\ recv = Some(0)
    /\ arg = Void
    /\ ret = Void

\* C5 as claimed: for both zip and and, in either operand order, Void
\* combined with a non-Some operand is Void, and None with None is None.
C5_DominanceBothOrders ==
    op \in {"and", "zip"} =>
        /\ (recv[1] = "Void" /\ arg[1] # "Some") => ret = <<"Void">>
        /\ (arg[1] = "Void" /\ recv[1] # "Some") => ret = <<"Void">>
        /\ (recv[1] = "None" /\ arg[1] = "None") => ret = <<"None">>

\* C5 as amended: the dominance of Void holds for zip in either operand
\* order and for and when its first operand is Void; None.and(Void) is None,
\* since and returns the first operand's variant when that is not Some; None
\* with None is None for both.
C5_DominanceAmended ==
    /\ op = "zip" =>
        /\ (recv[1] = "Void" /\ arg[1] # "Some") => ret = <<"Void">>
        /\ (arg[1] = "Void" /\ recv[1] # "Some") => ret = <<"Void">>
        /\ (recv[1] = "None" /\ arg[1] = "None") => ret = <<"None">>
    /\ op = "and" =>
        /\ (recv[1] = "Void" /\ arg[1] # "Some") => ret = <<"Void">>
        /\ (recv[1] = "None" /\ arg[1] = "Void") => ret = <<"None">>
        /\ (recv[1] = "None" /\ arg[1] = "None") => ret = <<"None">>

C5_Witness ==
    /\ op = "and"
    /\ recv = None
    /\ arg = Void
    /\ ret = None

\* C6: x.zip(y) is Some((a, b)) exactly when x is Some(a) and y is Some(b);
\* otherwise it is Void if either operand is Void and None if neither is.
C6_ZipTable ==
    op = "zip" =>
        /\ (recv[1] = "Some" /\ arg[1] = "Some") => ret = <<"Some", <<recv[2], arg[2]>>>>
        /\ ret[1] = "Some" => (recv[1] = "Some" /\ arg[1] = "Some")
        /\ (recv[1] # "Some" \/ arg[1] # "Some") =>
               IF recv[1] = "Void" \/ arg[1] = "Void"
               THEN ret = <<"Void">>
               ELSE ret = <<"None">>

C6_Witness ==
    /\ op = "zip"
    /\ recv = Some(1)
    /\ arg = Void
    /\ ret = Void

\* C7: x.or(y) is x when x is Some, whatever y is, and y verbatim when x is
\* None or Void; None.or(Void) is Void and Void.or(None) is None.
C7_OrTable ==
    op = "or" =>
        /\ recv[1] = "Some" => ret = recv
        /\ recv[1] \in {"None", "Void"} => ret = arg
        /\ (recv = <<"None">> /\ arg = <<"Void">>) => ret = <<"Void">>
        /\ (recv = <<"Void">> /\ arg = <<"None">>) => ret = <<"None">>

C7_Witness ==
    /\ op = "or"
    /\ recv = None
    /\ arg = Void
    /\ ret = Void

\* C8: map(f) is Some(f(v)) for Some(v); for None it is None and for Void it
\* is Void, and f is not invoked in these two cases.
C8_MapTable ==
    op = "map" =>
        /\ recv[1] = "Some" => ret = <<"Some", arg[recv[2]]>>
        /\ recv[1] = "None" => (ret = <<"None">> /\ calls = <<>>)
        /\ recv[1] = "Void" => (ret = <<"Void">> /\ calls = <<>>)

C8_Witness ==
    /\ op = "map"
    /\ recv = Void
    /\ ret = Void
    /\ calls = <<>>
    /\ arg[0] = 1

\* C9: and_then(f) on Some(v) is exactly f(v); on None it is None and on Void
\* it is Void, without invoking f; once a step of a chain has produced None or
\* Void, every later and_then of the chain returns that same variant.
C9_AndThenChain ==
    op = "and_then" =>
        /\ recv[1] = "Some" => (ret = arg[recv[2]] /\ calls = <<recv[2]>>)
        /\ recv[1] = "None" => (ret = <<"None">> /\ calls = <<>>)
        /\ recv[1] = "Void" => (ret = <<"Void">> /\ calls = <<>>)
        /\ \A i \in 1..Len(chain) : \A j \in 1..Len(chain) :
               (i < j /\ chain[i][1] # "Some") => chain[j] = chain[i]

C9_Witness ==
    /\ op = "and_then"
    /\ Len(chain) = 3
    /\ chain[1] = Some(0)
    /\ chain[2] = Void
    /\ chain[3] = Void
    /\ arg[0] = Some(1)
    /\ calls = <<>>

\* C10: filter(p) is None for None and Void for Void, without invoking p; for
\* Some(v) it is Some(v) when p(v) holds and None, never Void, when it fails.
C10_FilterTable ==
    op = "filter" =>
        /\ recv[1] = "None" => (ret = <<"None">> /\ calls = <<>>)
        /\ recv[1] = "Void" => (ret = <<"Void">> /\ calls = <<>>)
        /\ (recv[1] = "Some" /\ arg[recv[2]]) => ret = recv
        /\ (recv[1] = "Some" /\ ~arg[recv[2]]) => (ret = <<"None">> /\ ret # <<"Void">>)

C10_Witness ==
    /\ op = "filter"
    /\ recv = Some(1)
    /\ ~arg[1]
    /\ ret = None

\* C11: unwrap() on Some(v) returns v; on None and on Void it panics, and the
\* message for None differs from the message for Void and names the variant.
C11_UnwrapMessages ==
    op = "unwrap" =>
        /\ recv[1] = "Some" => ret = <<"Ok", recv[2]>>
        /\ recv[1] = "None" =>
               ret = <<"Panic", "called 'Possible::unwrap()' on a 'Possible::None' value">>
        /\ recv[1] = "Void" =>
               ret = <<"Panic", "called 'Possible::unwrap()' on a 'Possible::Void' value">>
        /\ recv[1] # "Some" => ret # unwrap(IF recv[1] = "None" THEN Void ELSE None)

C11_Witness ==
    /\ op = "unwrap"
    /\ recv = Void
    /\ ret[1] = "Panic"
    /\ ret[2] = "called 'Possible::unwrap()' on a 'Possible::Void' value"

\* C12 as claimed: expect(msg) on None and on Void panics with a diagnostic
\* that names the empty state met, so for the same msg the diagnostic for
\* Void differs from the one for None.
C12_ExpectDistinctDiagnostics ==
    (op = "expect" /\ recv[1] # "Some") =>
        /\ ret[1] = "Panic"
        /\ ret # expect(IF recv[1] = "None" THEN Void ELSE None, arg)

\* C12 as amended: expect(msg) on Some(v) returns v; on None and on Void it
\* panics with exactly msg as its diagnostic, the same for both empty states.
C12_ExpectPanicsWithMsg ==
    op = "expect" =>
        /\ recv[1] = "Some" => ret = <<"Ok", recv[2]>>
        /\ recv[1] = "None" => ret = <<"Panic", arg>>
        /\ recv[1] = "Void" => ret = <<"Panic", arg>>

C12_Witness ==
    /\ op = "expect"
    /\ recv = Void
    /\ arg = "fruits are healthy"
    /\ ret = <<"Panic", "fruits are healthy">>

\* C13: unwrap_or(d), unwrap_or_else(f) and unwrap_or_default() never panic:
\* they return v for Some(v), and for None and for Void alike the fallback:
\* d, f() and the payload type's default.
C13_FallbackExtraction ==
    /\ op \in {"unwrap_or", "unwrap_or_else", "unwrap_or_default"} =>
        /\ ret[1] = "Ok"
        /\ recv[1] = "Some" => ret[2] = recv[2]
    /\ (op = "unwrap_or" /\ recv[1] \in {"None", "Void"}) => ret = <<"Ok", arg>>
    /\ (op = "unwrap_or_else" /\ recv[1] \in {"None", "Void"}) => ret = <<"Ok", arg[<<>>]>>
    /\ (op = "unwrap_or_default" /\ recv[1] \in {"None", "Void"}) => ret = <<"Ok", 0>>

C13_Witness ==
    /\ op = "unwrap_or"
    /\ recv = Void
    /\ arg = 1
    /\ ret = <<"Ok", 1>>

\* C14: converting a Possible to an Option and back is lossy: Some(v) comes
\* back as Some(v); None and Void both become Option::None and come back as
\* None; the conversion from an Option never produces Void.
C14_OptionRoundTripLossy ==
    /\ op = "option_round_trip" =>
        /\ recv[1] = "Some" => (arg = <<"Option::Some", recv[2]>> /\ ret = recv)
        /\ recv[1] \in {"None", "Void"} => (arg = <<"Option::None">> /\ ret = <<"None">>)
        /\ ret[1] # "Void"
    /\ op = "Possible::from" =>
        /\ recv[1] = "Option::Some" => ret = <<"Some", recv[2]>>
        /\ recv[1] = "Option::None" => ret = <<"None">>
        /\ ret[1] # "Void"

C14_Witness ==
    /\ op = "option_round_trip"
    /\ recv = Void
    /\ arg = OptionNone
    /\ ret = None

\* C15: from_iter yields Some of the payloads in order iff every element is
\* Some (the empty sequence gives Some of the empty collection); otherwise
\* it yields None, never Void, and consumes no element after the first
\* element that is not Some.
C15_FromIterAllOrNone ==
    op = "from_iter" =>
        LET bad == {i \in 1..Len(recv) : recv[i][1] # "Some"}
        IN  /\ bad = {} =>
                /\ ret = <<"Some", [i \in 1..Len(recv) |-> recv[i][2]]>>
                /\ calls = recv
            /\ ret[1] = "Some" => bad = {}
            /\ bad # {} =>
                LET first == CHOOSE i \in bad : \A j \in bad : i <= j
                IN  /\ ret = <<"None">>
                    /\ calls = SubSeq(recv, 1, first)

C15_Witness ==
    /\ op = "from_iter"
    /\ recv = <<Void, Some(1)>>
    /\ ret = None
    /\ calls = <<Void>>

\* C16: an iterator made from a Possible yields exactly one element, the
\* payload, when the value is Some and none when it is None or Void; under
\* any interleaving of next() and next_back() the element is yielded by the
\* first call and every later call returns nothing.
C16_IteratorYieldsOnce ==
    op \in IterOps =>
        \A i \in 1..Len(yielded) :
            /\ (recv[1] = "Some" /\ i = 1) => yielded[i][2] = <<"Option::Some", recv[2]>>
            /\ (recv[1] # "Some" \/ i > 1) => yielded[i][2] = <<"Option::None">>

C16_Witness ==
    /\ op = "next"
    /\ recv = Some(1)
    /\ Len(yielded) = 3
    /\ yielded[1] = <<"next_back", OptionSome(1)>>
    /\ yielded[2] = <<"next_back", OptionNone>>
    /\ yielded[3] = <<"next", OptionNone>>

\* C17: the decoder maps the reader's three events onto the three variants
\* one-to-one: a concrete value is decoded by the payload type's rule and
\* gives Some(payload), a null/none event gives None, a unit event gives
\* Void, and no event gives another variant.
C17_VisitorDispatch ==
    op = "visit" =>
        /\ recv[1] = "unit" => ret = <<"Ok", <<"Void">>>>
        /\ recv[1] = "none" => ret = <<"Ok", <<"None">>>>
        /\ \A v \in Vals :
               recv = <<"some", <<ToString(v)>>>> => ret = <<"Ok", <<"Some", v>>>>
        /\ ret[1] = "Ok" =>
               /\ ret[2][1] = "Some" <=> recv[1] = "some"
               /\ ret[2][1] = "None" <=> recv[1] = "none"
               /\ ret[2][1] = "Void" <=> recv[1] = "unit"

C17_Witness ==
    /\ op = "visit"
    /\ recv = <<"unit">>
    /\ ret = <<"Ok", Void>>

\* C18: with the field's skip rule wired to is_void, encoding emits the
\* payload as a plain value for Some(v), the format's null for None, and
\* omits the field for Void: a None field is never skipped and a Void field
\* never emits a null.  The documents are those of the JSON writer.
C18_EncodeWithSkipRule ==
    (op = "to_string" /\ arg.skip) =>
        /\ recv[1] = "Some" => calls = << <<"serialize_some", recv[2]>> >>
        /\ recv[1] = "None" => calls = << <<"serialize_none">> >>
        /\ recv[1] = "Void" => calls = <<>>
        /\ (\E i \in 1..Len(wire) : wire[i] = "test") <=> recv[1] # "Void"
        /\ arg.fmt = "json" =>
               /\ recv[1] = "Some" => wire = <<"{", "test", ":", ToString(recv[2]), "}">>
               /\ recv[1] = "None" => wire = <<"{", "test", ":", "null", "}">>
               /\ recv[1] = "Void" => wire = <<"{", "}">>

C18_Witness ==
    /\ op = "to_string"
    /\ arg.skip
    /\ arg.fmt = "json"
    /\ recv = None
    /\ wire = <<"{", "test", ":", "null", "}">>

\* C19: on JSON, RON and YAML, for a structure whose field defaults to Void
\* when missing and is skipped when is_void, decoding the encoding of the
\* field returns the original value for all three variants: Some(v) is
\* written as the value, None as the null, Void as an omitted key, and a
\* document with the key missing decodes to Void.
C19_NullAwareRoundTrip ==
    /\ (op = "serde_round_trip" /\ arg.skip) =>
        /\ ret = <<"Ok", recv>>
        /\ recv[1] = "Some" => \E i \in 1..Len(wire) : wire[i] = ToString(recv[2])
        /\ recv[1] = "None" => \E i \in 1..Len(wire) : wire[i] \in {"null", "~", "None"}
        /\ recv[1] = "Void" => \A i \in 1..Len(wire) : wire[i] # "test"
    /\ (op = "from_str" /\ \A i \in 1..Len(wire) : wire[i] # "test") =>
        ret = <<"Ok", <<"Void">>>>

C19_Witness ==
    /\ op = "serde_round_trip"
    /\ arg.skip
    /\ arg.fmt = "ron"
    /\ recv = Void
    /\ wire = <<"(", ")">>
    /\ ret = <<"Ok", Void>>

\* C20 as claimed: when the host encoder does not apply the is_void skip
\* rule, a Void field is written with the same explicit null as a None
\* field, so decoding that output yields None rather than Void.
C20_NoSkipRuleDegradesVoidOnEveryFormat ==
    (op \in {"to_string", "serde_round_trip"} /\ ~arg.skip /\ recv[1] = "Void") =>
        /\ wire = to_string(arg.fmt, FALSE, <<"None">>).wire
        /\ op = "serde_round_trip" => ret = <<"Ok", <<"None">>>>

\* C20 as amended: without the skip rule a Void field is written as the
\* unit value.  On JSON and YAML the unit is spelled as the null, the same
\* document as for None, and decodes to None rather than Void.  On RON the
\* unit is (), not the None that RON writes for None, and the reader
\* rejects it (Expected option): it decodes neither to None nor to Void.
C20_NoSkipRuleDegradesVoid ==
    (op \in {"to_string", "serde_round_trip"} /\ ~arg.skip /\ recv[1] = "Void") =>
        /\ calls = << <<"serialize_unit">> >>
        /\ arg.fmt = "json" => wire = <<"{", "test", ":", "null", "}">>
        /\ arg.fmt = "yaml" => wire = <<"---", "test", ":", "~">>
        /\ arg.fmt \in {"json", "yaml"} =>
               /\ wire = to_string(arg.fmt, FALSE, <<"None">>).wire
               /\ op = "serde_round_trip" => ret = <<"Ok", <<"None">>>>
        /\ arg.fmt = "ron" =>
               /\ wire = <<"(", "test", ":", "(", ")", ")">>
               /\ wire # to_string(arg.fmt, FALSE, <<"None">>).wire
               /\ op = "serde_round_trip" => ret = <<"Err", "Expected option">>

C20_Witness ==
    /\ op = "serde_round_trip"
    /\ ~arg.skip
    /\ arg.fmt = "ron"
    /\ recv = Void
    /\ wire = <<"(", "test", ":", "(", ")", ")">>
    /\ ret = <<"Err", "Expected option">>

\* C21: on the flat formats without a null (TOML, URL query string) a None
\* field and a Void field encode to the same output, with the key omitted,
\* so decoding the encoding of None yields Void; Some(v) encodes to the key
\* with its value and decodes back to Some(v).
C21_FlatFormatsDegradeNone ==
    /\ op \in {"flat_to_string", "flat_round_trip"} =>
        /\ recv[1] \in {"None", "Void"} =>
               /\ wire = <<>>
               /\ wire = flat_to_string(arg.fmt, <<"None">>).wire
               /\ wire = flat_to_string(arg.fmt, <<"Void">>).wire
        /\ recv[1] = "Some" => wire = <<"test", "=", ToString(recv[2])>>
    /\ op = "flat_round_trip" =>
        /\ recv[1] \in {"None", "Void"} => ret = <<"Ok", <<"Void">>>>
        /\ recv[1] = "Some" => ret = <<"Ok", recv>>

C21_Witness ==
    /\ op = "flat_round_trip"
    /\ arg.fmt = "toml"
    /\ recv = None
    /\ wire = <<>>
    /\ ret = <<"Ok", Void>>

\* C22: when the reader announces a concrete value and the payload type's
\* decode step fails, decoding returns exactly that error, unwrapped and
\* unchanged, and no variant; the none and unit events never return an
\* error, so a payload decode failure is the only error of the bridge.
C22_PayloadErrorVerbatim ==
    /\ op = "visit" =>
        /\ recv[1] \in {"unit", "none"} => ret[1] = "Ok"
        /\ ret[1] = "Err" <=>
               (recv[1] = "some" /\ \A v \in Vals : recv[2] # <<ToString(v)>>)
        /\ ret[1] = "Err" => ret = <<"Err", <<"invalid type", recv[2]>>>>
    /\ (op = "from_str" /\ wire = <<"{", "test", ":", "true", "}">>) =>
        ret = <<"Err", <<"invalid type", <<"true">>>>>>

C22_Witness ==
    /\ op = "visit"
    /\ recv = <<"some", <<"true">>>>
    /\ ret = <<"Err", <<"invalid type", <<"true">>>>>>

\* C23: equality is structural: two values are equal if and only if they
\* are the same variant and, for Some, their payloads are equal; None never
\* equals Void and neither equals any Some(v).
C23_StructuralEquality ==
    op = "eq" =>
        /\ ret <=> (recv[1] = arg[1] /\ (recv[1] = "Some" => recv[2] = arg[2]))
        /\ ({recv[1], arg[1]} = {"None", "Void"}) => ~ret
        /\ (recv[1] = "Some" /\ arg[1] # "Some") => ~ret
        /\ (recv[1] # "Some" /\ arg[1] = "Some") => ~ret

C23_Witness ==
    /\ op = "eq"
    /\ recv = None
    /\ arg = Void
    /\ ret = FALSE

\* C24: every binary combinator (and, or, zip) returns a Possible value and
\* does not fail for each combination of the variants of its operands, and
\* every unary combinator (map, and_then, filter, or_else) does so for each
\* variant of its receiver.
C24_CombinatorsTotal ==
    op \in {"and", "or", "zip", "map", "and_then", "filter", "or_else"} =>
        /\ recv[1] \in {"Some", "None", "Void"}
        /\ ret[1] \in {"Some", "None", "Void"}
        /\ ret[1] = "Some" =>
               /\ Len(ret) = 2
               /\ IF op = "zip" THEN ret[2] \in Vals \X Vals ELSE ret[2] \in Vals
        /\ ret[1] # "Some" => Len(ret) = 1

C24_Witness ==
    /\ op = "zip"
    /\ recv = None
    /\ arg = Void
    /\ ret = Void

\* C26: or_else(f) returns self unchanged without invoking f when self is
\* Some, and invokes f exactly once and returns its result verbatim when
\* self is None or Void; in every case it returns what or(f()) returns.
C26_OrElseIsLazyOr ==
    op = "or_else" =>
        /\ recv[1] = "Some" => (ret = recv /\ calls = <<>>)
        /\ recv[1] \in {"None", "Void"} => (ret = arg[<<>>] /\ calls = << <<>> >>)
        /\ ret = or(recv, arg[<<>>])

C26_Witness ==
    /\ op = "or_else"
    /\ recv = Void
    /\ arg[<<>>] = None
    /\ ret = None
    /\ calls = << <<>> >>

\* C25: insert(v) leaves the container Some(v) whatever its prior state;
\* get_or_insert_with(f), get_or_insert(v) and get_or_insert_default()
\* leave a Some container and its payload untouched without invoking f, and
\* turn a None or Void container into Some(f()); each either fully replaces
\* the variant or does not touch it, and afterwards the container is Some.
C25_InsertFamily ==
    /\ op = "insert" => (opt = <<"Some", arg>> /\ ret = arg)
    /\ op = "get_or_insert_with" =>
        /\ recv[1] = "Some" => (opt = recv /\ calls = <<>>)
        /\ recv[1] \in {"None", "Void"} =>
               (opt = <<"Some", arg[<<>>]>> /\ calls = << <<>> >>)
    /\ op = "get_or_insert" =>
        /\ recv[1] = "Some" => opt = recv
        /\ recv[1] \in {"None", "Void"} => opt = <<"Some", arg>>
    /\ op = "get_or_insert_default" =>
        /\ recv[1] = "Some" => opt = recv
        /\ recv[1] \in {"None", "Void"} => opt = <<"Some", 0>>
    /\ op \in {"insert", "get_or_insert", "get_or_insert_with", "get_or_insert_default"} =>
        /\ opt[1] = "Some"
        /\ ret = opt[2]

C25_Witness ==
    /\ op = "get_or_insert_with"
    /\ recv = Some(1)
    /\ arg[<<>>] = 0
    /\ opt = Some(1)
    /\ calls = <<>>

\* C28: after any sequence of take, replace, insert, get_or_insert,
\* get_or_insert_with and get_or_insert_default calls with at least one
\* call, the container is never None: it is Void if the last call was take
\* and Some otherwise; None is only seen in what take or replace return.
C28_NeverNoneAfterMutation ==
    /\ op = "take" => opt = <<"Void">>
    /\ op \in {"replace", "insert", "get_or_insert", "get_or_insert_with",
               "get_or_insert_default"} => opt[1] = "Some"
    /\ op \in {"insert", "get_or_insert", "get_or_insert_with",
               "get_or_insert_default"} => ret \in Vals
    /\ op \in {"take", "replace", "insert", "get_or_insert", "get_or_insert_with",
               "get_or_insert_default"} => opt # <<"None">>

C28_Witness ==
    /\ op = "take"
    /\ recv = None
    /\ ret = None
    /\ opt = Void

\* C27: decoding a JSON object that omits the field into a structure whose
\* Possible field carries no default annotation yields the absent variant
\* (Skip, now Void) for that field, not None.
C27_MissingFieldWithoutDefaultIsVoid ==
    (op = "from_str_no_default" /\ wire = <<"{", "}">>) => ret = <<"Ok", <<"Void">>>>

\* C29: or is associative over all variant combinations: (x.or(y)).or(z)
\* equals x.or(y.or(z)), both being the first Some operand in the order
\* x, y, z, or z itself when neither x nor y is Some.
C29_OrAssociative ==
    op = "or_or" =>
        /\ ret.left = ret.right
        /\ ret.left = (IF recv[1] = "Some" THEN recv
                       ELSE IF arg[1][1] = "Some" THEN arg[1]
                       ELSE arg[2])

C29_Witness ==
    /\ op = "or_or"
    /\ recv = None
    /\ arg = <<Void, None>>
    /\ ret.left = None
    /\ ret.right = None

\* C30: after any sequence of next() and next_back() calls size_hint()
\* returns lower and upper bounds both equal to the number of elements still
\* to be yielded (1 before the first call on Some, 0 otherwise), and after
\* the first call the iterator's state is Void even if it was made from None.
C30_SizeHintExact ==
    /\ op = "size_hint" =>
        ret = (IF recv[1] = "Some" /\ yielded = <<>>
               THEN <<1, <<"Option::Some", 1>>>> ELSE <<0, <<"Option::Some", 0>>>>)
    /\ (op \in IterOps /\ yielded # <<>>) => item.opt = <<"Void">>
    /\ (op \in IterOps /\ yielded = <<>>) => item.opt = recv

C30_Witness ==
    /\ op = "size_hint"
    /\ recv = None
    /\ Len(yielded) = 1
    /\ item.opt = Void
    /\ ret = <<0, OptionSome(0)>>

====
